---- MODULE Spec2Model ----
(***************************************************************************)
(* lifestats.me backend: users, API keys, per-user metric configuration,   *)
(* goals, metric entries and the aggregation computed by read_metrics.     *)
(*                                                                         *)
(* Time is an integer count of ticks; a calendar day holds TicksPerDay     *)
(* ticks and day 0 is Monday 2024-01-01, so that date(), weekday() and     *)
(* day-of-month are computed as datetime computes them.  Metric values and *)
(* targets are integers; a quotient total / days is kept as an exact       *)
(* reduced fraction.                                                       *)
(***************************************************************************)
EXTENDS Integers, Sequences, FiniteSets, Bags, TLC

(* ---------------- bounds of the model ---------------- *)
TicksPerDay == 2
MaxEntries == 2
(* the tokens issued in all *)
MaxTokens == 6
(* the resolution of time.time(): the clock readings in a second *)
TicksPerSecond == 4

(* ---------------- inputs ---------------- *)
Usernames == {"alice"}
None == -1
GoalTargets == {5, 8}
CustomKeys == {"mood"}
(* the (metric_key, value) pairs a client may post *)
EntryInputs ==
  { << "water_litres", 0 >>, << "water_litres", 2 >>,
    << "calories_kcal", 2000 >>, << "mood", 2 >> }
(* the one pair posted when the calendar is explored *)
CalendarEntryInputs == { << "water_litres", 50 >> }
(* the one pair posted when the goals are explored *)
GoalEntryInputs == { << "water_litres", 5 >> }

(* config.get_metrics(): the default metric catalogue (key, type, default  *)
(* goal); the user's goal starts as the default goal.                      *)
DefaultMetrics ==
  << [key |-> "water_litres", type |-> "min", default_goal |-> 2],
     [key |-> "calories_kcal", type |-> "max", default_goal |-> 2000] >>

DefaultKeys == { DefaultMetrics[i].key : i \in DOMAIN DefaultMetrics }
GoalKeyInputs == {"water_litres", "mood"}

(* ---------------- calendar ---------------- *)
(* Month lengths from January 2024 on (2024 is a leap year). *)
MonthLengths ==
  << 31, 29, 31, 30, 31, 30, 31, 31, 30, 31, 30, 31,
     31, 28, 31, 30, 31, 30, 31, 31, 30, 31, 30, 31 >>

RECURSIVE DayInMonthFrom(_, _)
DayInMonthFrom(d, m) ==
  IF d < MonthLengths[m] THEN d + 1 ELSE DayInMonthFrom(d - MonthLengths[m], m + 1)

(* date.day: 1-based day of the month of day number d *)
DayOfMonth(d) == DayInMonthFrom(d, 1)

RECURSIVE ElapsedInQuarterFrom(_, _, _)
ElapsedInQuarterFrom(d, m, acc) ==
  IF d < MonthLengths[m] THEN acc + d + 1
  ELSE ElapsedInQuarterFrom(d - MonthLengths[m], m + 1,
                            IF m % 3 = 0 THEN 0 ELSE acc + MonthLengths[m])

(* the number of days of the calendar quarter elapsed on day d, inclusive *)
ElapsedInQuarter(d) == ElapsedInQuarterFrom(d, 1, 0)

(* date.weekday(): Monday = 0 .. Sunday = 6 *)
Weekday(d) == d % 7

(* datetime.date() *)
DateOf(ts) == ts \div TicksPerDay

(* datetime.combine(day, datetime.min.time()) *)
StartOfDay(d) == d * TicksPerDay

(* timedelta(days=n) in ticks *)
Days(n) == n * TicksPerDay

(* The instants at which the clock is observed: Friday 2025-01-10 at       *)
(* midnight and Sunday 2025-01-12 after midnight.                          *)
Instants == { StartOfDay(375), StartOfDay(377) + 1 }

(* The instants at which the calendar is explored: Friday 2025-01-10 (the  *)
(* 10th day of a quarter), Sunday 2025-01-12, Monday 2025-03-31 at         *)
(* midnight (the 31st of a month), Tuesday 2025-04-01 (the first day of a  *)
(* month and of a quarter).                                                *)
CalendarInstants ==
  { StartOfDay(375) + 1, StartOfDay(377) + 1, StartOfDay(455), StartOfDay(456) + 1 }

Earliest(instants) == CHOOSE t \in instants : \A o \in instants : t <= o

VARIABLES now, users, api_keys, configs, goals, entries, next_id, signup_requests, response,
          elapsed, user_requests, request_times, global_request_times, in_flight

(* the rate limiters' clock and histories *)
limiters == << elapsed, user_requests, request_times, global_request_times >>

vars == << now, users, api_keys, configs, goals, entries, next_id, signup_requests, response,
           limiters, in_flight >>

(* ---------------- numbers ---------------- *)
RECURSIVE GCD(_, _)
GCD(a, b) == IF b = 0 THEN a ELSE GCD(b, a % b)

(* The float None / total / days of the response, as an exact fraction. *)
Null == [null |-> TRUE, num |-> 0, den |-> 1]
Quotient(total, days) ==
  LET g == GCD(total, days)
  IN [null |-> FALSE, num |-> total \div g, den |-> days \div g]

(* sum(e.value for e in S) *)
RECURSIVE SumValues(_)
SumValues(S) ==
  IF S = {} THEN 0
  ELSE LET e == CHOOSE x \in S : TRUE IN e.value + SumValues(S \ {e})

(* hashlib.sha256(token.encode()).hexdigest() *)
Sha256(token) == << "sha256", token >>

(* ---------------- crud ---------------- *)
get_user_by_username(username) == { u \in users : u.username = username }

(* auth.get_current_user: the user id owning the key with this token's     *)
(* hash, or None when no key matches (401).                                *)
get_current_user(token) ==
  LET matching == { k \in api_keys : k.key_hash = Sha256(token) }
  IN IF matching = {} THEN None
     ELSE (CHOOSE k \in matching : \A o \in matching : k.id <= o.id).user_id

get_user_metrics_config(user_id) == { c \in configs : c.user_id = user_id }

get_user_metrics_config_active(user_id) ==
  { c \in configs : c.user_id = user_id /\ c.is_active }

get_user_goals(user_id) == { g \in goals : g.user_id = user_id }

(* variant: the entries are not filtered by their owner *)
get_user_metrics_any_user(user_id, start_date, end_date) ==
  { e \in entries : e.timestamp >= start_date /\ e.timestamp <= end_date }

get_user_metrics(user_id, start_date, end_date) ==
  { e \in entries :
      /\ e.user_id = user_id
      /\ e.timestamp >= start_date
      /\ e.timestamp <= end_date }

(* ---------------- read_metrics ---------------- *)
PeriodNames == {"daily", "weekly", "monthly", "quarterly", "yearly"}

period_days(name) ==
  CASE name = "daily" -> 1
    [] name = "weekly" -> 7
    [] name = "monthly" -> 30
    [] name = "quarterly" -> 90
    [] name = "yearly" -> 365

(* variant: the week starts on Sunday *)
current_week_start_sunday(t) == DateOf(t) - ((Weekday(DateOf(t)) + 1) % 7)

current_week_start(t) == DateOf(t) - Weekday(DateOf(t))

daily_end(t) == StartOfDay(DateOf(t) + 1)

(* variant: the monthly window starts one day back *)
periods_short_month(name, t) ==
  CASE name = "daily" -> StartOfDay(DateOf(t))
    [] name = "weekly" -> StartOfDay(current_week_start(t))
    [] name = "monthly" -> t - Days(1)
    [] name = "quarterly" -> t - Days(90)
    [] name = "yearly" -> t - Days(365)

(* periods[name]: the start of the period *)
periods(name, t) ==
  CASE name = "daily" -> StartOfDay(DateOf(t))
    [] name = "weekly" -> StartOfDay(current_week_start(t))
    [] name = "monthly" -> t - Days(30)
    [] name = "quarterly" -> t - Days(90)
    [] name = "yearly" -> t - Days(365)

(* the entries fetched for the period *)
PeriodEntries(user_id, name, t) ==
  IF name = "daily"
  THEN get_user_metrics(user_id, periods(name, t), daily_end(t))
  ELSE get_user_metrics(user_id, periods(name, t), t)

(* sums[key] *)
PeriodSum(es, key) == SumValues({ e \in es : e.metric_key = key })

(* variant: the quarterly divisor counts the elapsed days of the calendar quarter *)
days_passed_calendar_quarter(name, t) ==
  CASE name = "weekly" -> Weekday(DateOf(t)) + 1
    [] name = "monthly" -> DayOfMonth(DateOf(t))
    [] name = "quarterly" -> ElapsedInQuarter(DateOf(t))
    [] name = "yearly" -> (DateOf(t) - DateOf(t - Days(365))) + 1
    [] OTHER -> 1

days_passed(name, t) ==
  CASE name = "weekly" -> Weekday(DateOf(t)) + 1
    [] name = "monthly" -> DayOfMonth(DateOf(t))
    [] name = "quarterly" -> (DateOf(t) - DateOf(t - Days(90))) + 1
    [] name = "yearly" -> (DateOf(t) - DateOf(t - Days(365))) + 1
    [] OTHER -> 1

Min(a, b) == IF a <= b THEN a ELSE b

(* variant: the divisor is not capped to the period length *)
AvgDaysUncapped(name, t) == days_passed(name, t)

(* variant: every period divides by one day *)
AvgDaysOne(name, t) == Min(period_days(name), 1)

(* days: the averaging divisor *)
AvgDays(name, t) == Min(period_days(name), days_passed(name, t))

(* variant: a zero total is reported as 0 even when nothing was fetched *)
AveragePerDayZero(total, days, es) == Quotient(total, days)

(* avg_per_day[key] *)
AveragePerDay(total, days, es) ==
  IF total # 0 THEN Quotient(total, days)
  ELSE IF es = {} THEN Null ELSE Quotient(0, days)

(* variant: the day window is cut to the elapsed days *)
PeriodDatesElapsed(name, t) ==
  CASE name = "weekly" -> [i \in 1..7 |-> current_week_start(t) + (i - 1)]
    [] name = "daily" -> << DateOf(t) >>
    [] OTHER -> [i \in 1..AvgDays(name, t) |-> DateOf(t) - (AvgDays(name, t) - i)]

(* dates: the calendar days of the period, in order *)
PeriodDates(name, t) ==
  CASE name = "weekly" -> [i \in 1..7 |-> current_week_start(t) + (i - 1)]
    [] name = "daily" -> << DateOf(t) >>
    [] OTHER ->
         [i \in 1..period_days(name) |-> DateOf(t) - (period_days(name) - i)]

(* variant: the total of a day takes the entries of every key *)
DayTotalAnyKey(es, key, day) ==
  SumValues({ e \in es : DateOf(e.timestamp) = day })

(* the total of one key on one day among the fetched entries *)
DayTotal(es, key, day) ==
  SumValues({ e \in es : e.metric_key = key /\ DateOf(e.timestamp) = day })

(* variant: a maximum goal must stay strictly under the target *)
GoalMetStrict(metric_type, total, target) ==
  IF metric_type = "max" THEN total < target ELSE total >= target

(* the goal test of one day *)
GoalMet(metric_type, total, target) ==
  IF metric_type = "max" THEN total <= target ELSE total >= target

(* variant: a key without a target is counted against a target of 0 *)
GoalCountDefaulted(es, dates, key, target, metric_type) ==
  LET of_key == { e \in es : e.metric_key = key }
      goal == IF target = None THEN 0 ELSE target
  IN Cardinality({ i \in DOMAIN dates :
                     GoalMet(metric_type, DayTotal(of_key, key, dates[i]), goal) })

(* goal_counts[key] *)
GoalCount(es, dates, key, target, metric_type) ==
  IF target = None THEN 0
  ELSE LET of_key == { e \in es : e.metric_key = key }
           ds == dates
       IN Cardinality({ i \in DOMAIN ds :
                          GoalMet(metric_type, DayTotal(of_key, key, ds[i]), target) })

(* aggregated[name] *)
Aggregate(user_id, name, t) ==
  LET user_configs == get_user_metrics_config_active(user_id)
      metric_keys == { c.metric_key : c \in user_configs }
      cfg(key) == CHOOSE c \in user_configs : c.metric_key = key
      es == PeriodEntries(user_id, name, t)
      days == AvgDays(name, t)
      dates == PeriodDates(name, t)
      avg_per_day == [key \in metric_keys |-> AveragePerDay(PeriodSum(es, key), days, es)]
      goal_counts ==
        [key \in metric_keys |-> GoalCount(es, dates, key, cfg(key).goal, cfg(key).type)]
      (* the handler's local variables, kept with the result *)
      locals == [entries |-> es, days |-> days, dates |-> dates,
                 goal_map |-> [key \in metric_keys |-> cfg(key).goal]]
  IN IF name = "weekly"
     THEN [average_values |-> avg_per_day,
           daily_totals |->
             [key \in metric_keys |-> [i \in 1..7 |-> DayTotal(es, key, dates[i])]],
           goalReached |-> goal_counts,
           locals |-> locals]
     ELSE [average_values |-> avg_per_day,
           goalReached |-> goal_counts,
           locals |-> locals]

(* ---------------- state machine ---------------- *)
SIGNUP_RATE_LIMIT == 5
SIGNUP_RATE_PERIOD == 60

(* time.time() in seconds at tick t *)
Seconds(t) == t * (86400 \div TicksPerDay)

Resp(op, status, user, body) ==
  [op |-> op, status |-> status, user |-> user, body |-> body]

NoBody == << >>

InitAt(t) ==
  /\ now = t
  /\ users = {}
  /\ api_keys = {}
  /\ configs = {}
  /\ goals = {}
  /\ entries = {}
  /\ next_id = [user |-> 1, api_key |-> 1, goal |-> 1, entry |-> 1, token |-> 1]
  /\ signup_requests = << >>
  /\ response = Resp("none", 0, None, NoBody)
  /\ elapsed = 0
  /\ user_requests = << >>
  /\ request_times = << >>
  /\ global_request_times = << >>
  /\ in_flight = EmptyBag

(* the tokens issued so far *)
IssuedTokens == 1 .. (next_id.token - 1)

(* the timestamps a client may send with an entry: none (the server's now) *)
(* or the next tick (later today, or the start of tomorrow)                *)
TimestampInputs(t) == {t, t + 1}

(* crud.initialize_user_metrics_config *)
initialize_user_metrics_config(user_id) ==
  { [user_id |-> user_id,
     metric_key |-> DefaultMetrics[i].key,
     type |-> DefaultMetrics[i].type,
     goal |-> DefaultMetrics[i].default_goal,
     default_goal |-> DefaultMetrics[i].default_goal,
     is_active |-> TRUE] : i \in DOMAIN DefaultMetrics }

(* crud.create_default_goals: one goal per default metric, ids in order *)
create_default_goals(user_id, first_id, t) ==
  { [id |-> first_id + (i - 1),
     user_id |-> user_id,
     metric_key |-> DefaultMetrics[i].key,
     target_value |-> DefaultMetrics[i].default_goal,
     created_at |-> t] : i \in DOMAIN DefaultMetrics }

RECURSIVE Prune(_, _)

(* variant: old signups are never dropped from the history *)
PruneNever(history, limit) == history

(* while history and history[0] <= limit: history.pop(0) *)
Prune(history, limit) ==
  IF history # << >> /\ Head(history) <= limit THEN Prune(Tail(history), limit)
  ELSE history

(* crud.create_api_key: the key record added *)
create_api_key(user_id, key_hash) ==
  [id |-> next_id.api_key, user_id |-> user_id, key_hash |-> key_hash]

(* variant: the signup is counted against the rate limit before the        *)
(* username is looked up                                                   *)
SignupRateFirst(username) ==
  LET pruned == Prune(signup_requests, Seconds(now) - SIGNUP_RATE_PERIOD)
      uid == next_id.user
      token == next_id.token
  IN IF Len(pruned) >= SIGNUP_RATE_LIMIT
     THEN /\ signup_requests' = pruned
          /\ response' = Resp("signup", 429, None, "Rate limit exceeded")
          /\ UNCHANGED << now, users, api_keys, configs, goals, entries, next_id >>
     ELSE IF get_user_by_username(username) # {}
     THEN /\ signup_requests' = Append(pruned, Seconds(now))
          /\ response' = Resp("signup", 400, None, "Username already exists")
          /\ UNCHANGED << now, users, api_keys, configs, goals, entries, next_id >>
     ELSE /\ signup_requests' = Append(pruned, Seconds(now))
          /\ users' = users \cup { [id |-> uid, username |-> username] }
          /\ configs' = configs \cup initialize_user_metrics_config(uid)
          /\ api_keys' = api_keys \cup { create_api_key(uid, Sha256(token)) }
          /\ goals' = goals \cup create_default_goals(uid, next_id.goal, now)
          /\ next_id' = [next_id EXCEPT !.user = @ + 1, !.api_key = @ + 1,
                                        !.token = @ + 1,
                                        !.goal = @ + Len(DefaultMetrics)]
          /\ response' = Resp("signup", 200, uid, [username |-> username, token |-> token])
          /\ UNCHANGED << now, entries >>

(* variant: the signup history is compared with > instead of >= *)
SignupLimitLate(username) ==
  LET pruned == Prune(signup_requests, Seconds(now) - SIGNUP_RATE_PERIOD)
      uid == next_id.user
      token == next_id.token
  IN IF get_user_by_username(username) # {}
     THEN /\ response' = Resp("signup", 400, None, "Username already exists")
          /\ UNCHANGED << now, users, api_keys, configs, goals, entries, next_id,
                          signup_requests >>
     ELSE IF Len(pruned) > SIGNUP_RATE_LIMIT
     THEN /\ signup_requests' = pruned
          /\ response' = Resp("signup", 429, None, "Rate limit exceeded")
          /\ UNCHANGED << now, users, api_keys, configs, goals, entries, next_id >>
     ELSE /\ signup_requests' = Append(pruned, Seconds(now))
          /\ users' = users \cup { [id |-> uid, username |-> username] }
          /\ configs' = configs \cup initialize_user_metrics_config(uid)
          /\ api_keys' = api_keys \cup { create_api_key(uid, Sha256(token)) }
          /\ goals' = goals \cup create_default_goals(uid, next_id.goal, now)
          /\ next_id' = [next_id EXCEPT !.user = @ + 1, !.api_key = @ + 1,
                                        !.token = @ + 1,
                                        !.goal = @ + Len(DefaultMetrics)]
          /\ response' = Resp("signup", 200, uid, [username |-> username, token |-> token])
          /\ UNCHANGED << now, entries >>

(* POST /api/signup *)
Signup(username) ==
  LET pruned == Prune(signup_requests, Seconds(now) - SIGNUP_RATE_PERIOD)
      uid == next_id.user
      token == next_id.token
  IN IF get_user_by_username(username) # {}
     THEN /\ response' = Resp("signup", 400, None, "Username already exists")
          /\ UNCHANGED << now, users, api_keys, configs, goals, entries, next_id,
                          signup_requests >>
     ELSE IF Len(pruned) >= SIGNUP_RATE_LIMIT
     THEN /\ signup_requests' = pruned
          /\ response' = Resp("signup", 429, None, "Rate limit exceeded")
          /\ UNCHANGED << now, users, api_keys, configs, goals, entries, next_id >>
     ELSE /\ signup_requests' = Append(pruned, Seconds(now))
          /\ users' = users \cup { [id |-> uid, username |-> username] }
          /\ configs' = configs \cup initialize_user_metrics_config(uid)
          /\ api_keys' = api_keys \cup { create_api_key(uid, Sha256(token)) }
          /\ goals' = goals \cup create_default_goals(uid, next_id.goal, now)
          /\ next_id' = [next_id EXCEPT !.user = @ + 1, !.api_key = @ + 1,
                                        !.token = @ + 1,
                                        !.goal = @ + Len(DefaultMetrics)]
          /\ response' = Resp("signup", 200, uid, [username |-> username, token |-> token])
          /\ UNCHANGED << now, entries >>

(* variant: the key is validated against every configuration of the user, *)
(* deactivated ones included                                              *)
AddMetricEntryAnyConfig(token, metric_key, value, timestamp) ==
  LET uid == get_current_user(token)
      valid_keys == { c.metric_key : c \in get_user_metrics_config(uid) }
  IN IF uid = None
     THEN /\ response' = Resp("add_metric_entry", 401, None, NoBody)
          /\ UNCHANGED << now, users, api_keys, configs, goals, entries, next_id,
                          signup_requests >>
     ELSE IF metric_key \notin valid_keys
     THEN /\ response' = Resp("add_metric_entry", 400, uid, [hint |-> valid_keys])
          /\ UNCHANGED << now, users, api_keys, configs, goals, entries, next_id,
                          signup_requests >>
     ELSE /\ Cardinality(entries) < MaxEntries
          /\ LET entry == [id |-> next_id.entry, user_id |-> uid,
                           metric_key |-> metric_key, value |-> value,
                           timestamp |-> timestamp]
             IN /\ entries' = entries \cup {entry}
                /\ response' = Resp("add_metric_entry", 200, uid, entry)
          /\ next_id' = [next_id EXCEPT !.entry = @ + 1]
          /\ UNCHANGED << now, users, api_keys, configs, goals, signup_requests >>

(* POST /api/metrics *)
AddMetricEntry(token, metric_key, value, timestamp) ==
  LET uid == get_current_user(token)
      valid_keys == { c.metric_key : c \in get_user_metrics_config_active(uid) }
  IN IF uid = None
     THEN /\ response' = Resp("add_metric_entry", 401, None, NoBody)
          /\ UNCHANGED << now, users, api_keys, configs, goals, entries, next_id,
                          signup_requests >>
     ELSE IF metric_key \notin valid_keys
     THEN /\ response' = Resp("add_metric_entry", 400, uid, [hint |-> valid_keys])
          /\ UNCHANGED << now, users, api_keys, configs, goals, entries, next_id,
                          signup_requests >>
     ELSE /\ Cardinality(entries) < MaxEntries
          /\ LET entry == [id |-> next_id.entry, user_id |-> uid,
                           metric_key |-> metric_key, value |-> value,
                           timestamp |-> timestamp]
             IN /\ entries' = entries \cup {entry}
                /\ response' = Resp("add_metric_entry", 200, uid, entry)
          /\ next_id' = [next_id EXCEPT !.entry = @ + 1]
          /\ UNCHANGED << now, users, api_keys, configs, goals, signup_requests >>

(* variant: every call adds a goal record and keeps the older ones *)
upsert_goal_appending(user_id, metric_key, target_value, t) ==
  LET goal == [id |-> next_id.goal, user_id |-> user_id, metric_key |-> metric_key,
               target_value |-> target_value, created_at |-> t]
  IN [table |-> goals \cup {goal}, goal |-> goal, created |-> 1]

(* variant: the older record is deleted and a new one takes its place *)
upsert_goal_replacing(user_id, metric_key, target_value, t) ==
  LET goal == [id |-> next_id.goal, user_id |-> user_id, metric_key |-> metric_key,
               target_value |-> target_value, created_at |-> t]
      matching == { g \in goals : g.user_id = user_id /\ g.metric_key = metric_key }
  IN [table |-> (goals \ matching) \cup {goal}, goal |-> goal, created |-> 1]

(* crud.upsert_goal: the goals table after the upsert, and the goal returned *)
upsert_goal(user_id, metric_key, target_value, t) ==
  LET matching == { g \in goals : g.user_id = user_id /\ g.metric_key = metric_key }
  IN IF matching # {}
     THEN LET existing == CHOOSE g \in matching : \A o \in matching : g.id <= o.id
              updated == [existing EXCEPT !.target_value = target_value, !.created_at = t]
          IN [table |-> (goals \ {existing}) \cup {updated}, goal |-> updated, created |-> 0]
     ELSE LET goal == [id |-> next_id.goal, user_id |-> user_id, metric_key |-> metric_key,
                       target_value |-> target_value, created_at |-> t]
          IN [table |-> goals \cup {goal}, goal |-> goal, created |-> 1]

(* POST /api/goals *)
SetGoal(token, metric_key, target_value) ==
  LET uid == get_current_user(token)
  IN IF uid = None
     THEN /\ response' = Resp("set_goal", 401, None, NoBody)
          /\ UNCHANGED << now, users, api_keys, configs, goals, entries, next_id,
                          signup_requests >>
     ELSE IF metric_key \notin DefaultKeys
     THEN /\ response' = Resp("set_goal", 400, uid, [hint |-> DefaultKeys])
          /\ UNCHANGED << now, users, api_keys, configs, goals, entries, next_id,
                          signup_requests >>
     ELSE LET up == upsert_goal(uid, metric_key, target_value, now)
          IN /\ goals' = up.table
             /\ next_id' = [next_id EXCEPT !.goal = @ + up.created]
             /\ response' = Resp("set_goal", 200, uid, up.goal)
             /\ UNCHANGED << now, users, api_keys, configs, entries, signup_requests >>

(* GET /api/goals *)
ReadGoals(token) ==
  LET uid == get_current_user(token)
  IN /\ response' = IF uid = None THEN Resp("read_goals", 401, None, NoBody)
                    ELSE Resp("read_goals", 200, uid, get_user_goals(uid))
     /\ UNCHANGED << now, users, api_keys, configs, goals, entries, next_id,
                     signup_requests >>

(* POST /api/metrics/config *)
CreateMetricsConfig(token, metric_key, type, goal) ==
  LET uid == get_current_user(token)
  IN IF uid = None
     THEN /\ response' = Resp("create_metrics_config", 401, None, NoBody)
          /\ UNCHANGED << now, users, api_keys, configs, goals, entries, next_id,
                          signup_requests >>
     ELSE IF \E c \in get_user_metrics_config(uid) : c.metric_key = metric_key
     THEN /\ response' = Resp("create_metrics_config", 400, uid, "Metric already exists for user")
          /\ UNCHANGED << now, users, api_keys, configs, goals, entries, next_id,
                          signup_requests >>
     ELSE LET config == [user_id |-> uid, metric_key |-> metric_key, type |-> type,
                         goal |-> goal, default_goal |-> None, is_active |-> TRUE]
          IN /\ configs' = configs \cup {config}
             /\ response' = Resp("create_metrics_config", 200, uid, config)
             /\ UNCHANGED << now, users, api_keys, goals, entries, next_id,
                             signup_requests >>

(* current_user.username *)
UsernameOf(user_id) == (CHOOSE u \in users : u.id = user_id).username

(* crud.get_user_api_keys *)
get_user_api_keys(user_id) == { k \in api_keys : k.user_id = user_id }

(* the most API keys a user may hold *)
API_KEY_LIMIT == 5

(* variant: the key count is compared with > instead of >= *)
ApiKeyLimitReachedLate(user_id) == Cardinality(get_user_api_keys(user_id)) > API_KEY_LIMIT

(* len(existing_keys) >= 5 *)
ApiKeyLimitReached(user_id) == Cardinality(get_user_api_keys(user_id)) >= API_KEY_LIMIT

(* POST /api/keys/{username} *)
GenerateApiKey(token, username) ==
  LET uid == get_current_user(token)
      new_token == next_id.token
  IN IF uid = None
     THEN /\ response' = Resp("generate_api_key", 401, None, NoBody)
          /\ UNCHANGED << now, users, api_keys, configs, goals, entries, next_id,
                          signup_requests >>
     ELSE IF username # UsernameOf(uid)
     THEN /\ response' = Resp("generate_api_key", 403, uid, NoBody)
          /\ UNCHANGED << now, users, api_keys, configs, goals, entries, next_id,
                          signup_requests >>
     ELSE IF ApiKeyLimitReached(uid)
     THEN /\ response' = Resp("generate_api_key", 400, uid, "API key limit reached")
          /\ UNCHANGED << now, users, api_keys, configs, goals, entries, next_id,
                          signup_requests >>
     ELSE /\ next_id.token <= MaxTokens
          /\ api_keys' = api_keys \cup { create_api_key(uid, Sha256(new_token)) }
          /\ next_id' = [next_id EXCEPT !.api_key = @ + 1, !.token = @ + 1]
          /\ response' = Resp("generate_api_key", 200, uid, [token |-> new_token])
          /\ UNCHANGED << now, users, configs, goals, entries, signup_requests >>

(* variant: the key is looked up by its hash alone *)
revoke_api_key_any_user(user_id, key_hash) ==
  api_keys \ { k \in api_keys : k.key_hash = key_hash }

(* crud.revoke_api_key: the keys left after the revocation *)
revoke_api_key(user_id, key_hash) ==
  LET matching == { k \in api_keys : k.user_id = user_id /\ k.key_hash = key_hash }
  IN IF matching = {} THEN api_keys
     ELSE api_keys \ { CHOOSE k \in matching : \A o \in matching : k.id <= o.id }

(* DELETE /api/keys/{username} *)
InvalidateApiKey(token, username, key_token) ==
  LET uid == get_current_user(token)
  IN IF uid = None
     THEN /\ response' = Resp("invalidate_api_key", 401, None, NoBody)
          /\ UNCHANGED << now, users, api_keys, configs, goals, entries, next_id,
                          signup_requests >>
     ELSE IF username # UsernameOf(uid)
     THEN /\ response' = Resp("invalidate_api_key", 403, uid, NoBody)
          /\ UNCHANGED << now, users, api_keys, configs, goals, entries, next_id,
                          signup_requests >>
     ELSE /\ api_keys' = revoke_api_key(uid, Sha256(key_token))
          /\ response' = Resp("invalidate_api_key", 204, uid, NoBody)
          /\ UNCHANGED << now, users, configs, goals, entries, next_id, signup_requests >>

(* DELETE /api/keys/{username}/{key_id} *)
DeleteApiKeyById(token, username, key_id) ==
  LET uid == get_current_user(token)
      found == { k \in api_keys : k.id = key_id /\ k.user_id = uid }
  IN IF uid = None
     THEN /\ response' = Resp("delete_api_key_by_id", 401, None, NoBody)
          /\ UNCHANGED << now, users, api_keys, configs, goals, entries, next_id,
                          signup_requests >>
     ELSE IF username # UsernameOf(uid)
     THEN /\ response' = Resp("delete_api_key_by_id", 403, uid, NoBody)
          /\ UNCHANGED << now, users, api_keys, configs, goals, entries, next_id,
                          signup_requests >>
     ELSE IF found = {}
     THEN /\ response' = Resp("delete_api_key_by_id", 404, uid, "API key not found")
          /\ UNCHANGED << now, users, api_keys, configs, goals, entries, next_id,
                          signup_requests >>
     ELSE /\ api_keys' = api_keys \ found
          /\ response' = Resp("delete_api_key_by_id", 204, uid, NoBody)
          /\ UNCHANGED << now, users, configs, goals, entries, next_id, signup_requests >>

(* variant: the metric entries of the user are left behind *)
delete_user_keeping_entries(user_id) ==
  [api_keys |-> { k \in api_keys : k.user_id # user_id },
   entries |-> entries,
   goals |-> { g \in goals : g.user_id # user_id },
   configs |-> { c \in configs : c.user_id # user_id },
   users |-> { u \in users : u.id # user_id }]

(* crud.delete_user: the tables after the deletion *)
delete_user(user_id) ==
  [api_keys |-> { k \in api_keys : k.user_id # user_id },
   entries |-> { e \in entries : e.user_id # user_id },
   goals |-> { g \in goals : g.user_id # user_id },
   configs |-> { c \in configs : c.user_id # user_id },
   users |-> { u \in users : u.id # user_id }]

(* DELETE /api/user/{username} *)
DeleteUserAccount(token, username) ==
  LET uid == get_current_user(token)
  IN IF uid = None
     THEN /\ response' = Resp("delete_user_account", 401, None, NoBody)
          /\ UNCHANGED << now, users, api_keys, configs, goals, entries, next_id,
                          signup_requests >>
     ELSE IF username # UsernameOf(uid)
     THEN /\ response' = Resp("delete_user_account", 403, uid, NoBody)
          /\ UNCHANGED << now, users, api_keys, configs, goals, entries, next_id,
                          signup_requests >>
     ELSE LET after == delete_user(uid)
          IN /\ api_keys' = after.api_keys
             /\ entries' = after.entries
             /\ goals' = after.goals
             /\ configs' = after.configs
             /\ users' = after.users
             /\ response' = Resp("delete_user_account", 204, uid, NoBody)
             /\ UNCHANGED << now, next_id, signup_requests >>

(* variant: the configuration record is deleted *)
delete_user_metrics_config_removing(user_id, metric_key) ==
  { c \in configs : ~ (c.user_id = user_id /\ c.metric_key = metric_key) }

(* crud.delete_user_metrics_config: the configurations after the call *)
delete_user_metrics_config(user_id, metric_key) ==
  { IF c.user_id = user_id /\ c.metric_key = metric_key
    THEN [c EXCEPT !.is_active = FALSE] ELSE c : c \in configs }

(* DELETE /api/metrics/config/{metric_key} *)
DeleteMetricsConfig(token, metric_key) ==
  LET uid == get_current_user(token)
  IN IF uid = None
     THEN /\ response' = Resp("delete_metrics_config", 401, None, NoBody)
          /\ UNCHANGED << now, users, api_keys, configs, goals, entries, next_id,
                          signup_requests >>
     ELSE IF ~ \E c \in get_user_metrics_config(uid) : c.metric_key = metric_key
     THEN /\ response' = Resp("delete_metrics_config", 404, uid, NoBody)
          /\ UNCHANGED << now, users, api_keys, configs, goals, entries, next_id,
                          signup_requests >>
     ELSE /\ configs' = delete_user_metrics_config(uid, metric_key)
          /\ response' = Resp("delete_metrics_config", 200, uid, [status |-> "success"])
          /\ UNCHANGED << now, users, api_keys, goals, entries, next_id, signup_requests >>

(* variant: the read removes the entries it has reported for today *)
ReadMetricsConsuming(token) ==
  LET uid == get_current_user(token)
  IN /\ response' = IF uid = None THEN Resp("read_metrics", 401, None, NoBody)
                    ELSE Resp("read_metrics", 200, uid,
                              [name \in PeriodNames |-> Aggregate(uid, name, now)])
     /\ entries' = IF uid = None THEN entries
                   ELSE entries \ PeriodEntries(uid, "daily", now)
     /\ UNCHANGED << now, users, api_keys, configs, goals, next_id, signup_requests >>

(* GET /api/metrics *)
ReadMetrics(token) ==
  LET uid == get_current_user(token)
  IN /\ response' = IF uid = None THEN Resp("read_metrics", 401, None, NoBody)
                    ELSE Resp("read_metrics", 200, uid,
                              [name \in PeriodNames |-> Aggregate(uid, name, now)])
     /\ UNCHANGED << now, users, api_keys, configs, goals, entries, next_id,
                     signup_requests >>

(* the clock moves on to a later instant *)
AdvanceClock(instants) ==
  /\ \E t \in instants : t > now /\ now' = t
  /\ response' = Resp("none", 0, None, NoBody)
  /\ UNCHANGED << users, api_keys, configs, goals, entries, next_id, signup_requests >>

Next ==
  \/ \E username \in Usernames : Signup(username) /\ UNCHANGED << limiters, in_flight >>
  \/ \E token \in IssuedTokens, in \in EntryInputs, ts \in TimestampInputs(now) :
        AddMetricEntry(token, in[1], in[2], ts) /\ UNCHANGED << limiters, in_flight >>
  \/ \E token \in IssuedTokens, key \in CustomKeys :
        CreateMetricsConfig(token, key, "min", None) /\ UNCHANGED << limiters, in_flight >>
  \/ \E token \in IssuedTokens : ReadMetrics(token) /\ UNCHANGED << limiters, in_flight >>
  \/ AdvanceClock(Instants) /\ UNCHANGED << limiters, in_flight >>

Init == InitAt(Earliest(Instants))

(* the aggregation: signup, configuration, entries, read_metrics *)
Spec == Init /\ [][Next]_vars

NextCalendar ==
  \/ \E username \in Usernames : Signup(username) /\ UNCHANGED << limiters, in_flight >>
  \/ \E token \in IssuedTokens, in \in CalendarEntryInputs :
        AddMetricEntry(token, in[1], in[2], now) /\ UNCHANGED << limiters, in_flight >>
  \/ \E token \in IssuedTokens : ReadMetrics(token) /\ UNCHANGED << limiters, in_flight >>
  \/ AdvanceClock(CalendarInstants) /\ UNCHANGED << limiters, in_flight >>

InitCalendar == InitAt(Earliest(CalendarInstants))

(* the calendar: read_metrics at more instants, over entries made now *)
SpecCalendar == InitCalendar /\ [][NextCalendar]_vars

NextGoals ==
  \/ \E username \in Usernames : Signup(username) /\ UNCHANGED << limiters, in_flight >>
  \/ \E token \in IssuedTokens, key \in GoalKeyInputs, target \in GoalTargets :
        SetGoal(token, key, target) /\ UNCHANGED << limiters, in_flight >>
  \/ \E token \in IssuedTokens, in \in GoalEntryInputs :
        AddMetricEntry(token, in[1], in[2], now) /\ UNCHANGED << limiters, in_flight >>
  \/ \E token \in IssuedTokens : ReadGoals(token) /\ UNCHANGED << limiters, in_flight >>
  \/ \E token \in IssuedTokens : ReadMetrics(token) /\ UNCHANGED << limiters, in_flight >>
  \/ AdvanceClock(Instants) /\ UNCHANGED << limiters, in_flight >>

(* the goals: signup, set_goal, read_goals, read_metrics *)
SpecGoals == Init /\ [][NextGoals]_vars

(* ---------------- signup on its own ---------------- *)
SignupUsernames == {"alice", "bob", "carol", "dave", "erin", "frank"}

NextSignup ==
  \/ \E username \in SignupUsernames : Signup(username) /\ UNCHANGED << limiters, in_flight >>
  \/ AdvanceClock(Instants) /\ UNCHANGED << limiters, in_flight >>

(* signup: more fresh usernames than the signup rate limit admits *)
SpecSignup == Init /\ [][NextSignup]_vars

(* ---------------- API keys ---------------- *)
AccountUsernames == {"alice", "bob"}

NextKeys ==
  \/ \E username \in Usernames : Signup(username) /\ UNCHANGED << limiters, in_flight >>
  \/ \E token \in IssuedTokens, username \in AccountUsernames :
        GenerateApiKey(token, username) /\ UNCHANGED << limiters, in_flight >>
  \/ \E token \in IssuedTokens, username \in AccountUsernames, key_token \in IssuedTokens :
        InvalidateApiKey(token, username, key_token) /\ UNCHANGED << limiters, in_flight >>
  \/ \E token \in IssuedTokens, username \in AccountUsernames, key_id \in 1..next_id.api_key :
        DeleteApiKeyById(token, username, key_id) /\ UNCHANGED << limiters, in_flight >>

(* the API keys of one user: generate, invalidate, delete by id *)
SpecKeys == Init /\ [][NextKeys]_vars

(* ---------------- accounts ---------------- *)
(* the accounts created in all: each username registers once *)
MaxUsers == Cardinality(AccountUsernames)
AccountEntryInputs == { << "water_litres", 2 >>, << "mood", 2 >> }
AccountConfigKeys == {"water_litres"}

NextAccounts ==
  \/ \E username \in AccountUsernames : next_id.user <= MaxUsers /\ Signup(username) /\ UNCHANGED << limiters, in_flight >>
  \/ \E token \in IssuedTokens, in \in AccountEntryInputs :
        AddMetricEntry(token, in[1], in[2], now) /\ UNCHANGED << limiters, in_flight >>
  \/ \E token \in IssuedTokens, key \in AccountConfigKeys :
        DeleteMetricsConfig(token, key) /\ UNCHANGED << limiters, in_flight >>
  \/ \E token \in IssuedTokens, username \in AccountUsernames :
        DeleteUserAccount(token, username) /\ UNCHANGED << limiters, in_flight >>
  \/ \E token \in IssuedTokens : ReadMetrics(token) /\ UNCHANGED << limiters, in_flight >>

(* two accounts: entries, metric configurations, reads, account deletion *)
SpecAccounts == Init /\ [][NextAccounts]_vars

(* ---------------- account deletion ---------------- *)
NextDeletion ==
  \/ \E username \in Usernames : next_id.user <= MaxUsers /\ Signup(username) /\ UNCHANGED << limiters, in_flight >>
  \/ \E token \in IssuedTokens, username \in AccountUsernames :
        GenerateApiKey(token, username) /\ UNCHANGED << limiters, in_flight >>
  \/ \E token \in IssuedTokens, in \in GoalEntryInputs :
        AddMetricEntry(token, in[1], in[2], now) /\ UNCHANGED << limiters, in_flight >>
  \/ \E token \in IssuedTokens, username \in AccountUsernames :
        DeleteUserAccount(token, username) /\ UNCHANGED << limiters, in_flight >>
  \/ \E token \in IssuedTokens : ReadGoals(token) /\ UNCHANGED << limiters, in_flight >>

(* an account with several keys, its deletion and a second registration *)
SpecDeletion == Init /\ [][NextDeletion]_vars

(* ---------------- rate limiting ---------------- *)
(* dependencies.py: 10 requests per second for each user *)
USER_RATE_LIMIT == 10
USER_RATE_PERIOD == 1

(* main.py: 10 requests per 1.0 second for each API key *)
MIDDLEWARE_RATE_LIMIT == 10
MIDDLEWARE_RATE_PERIOD == 1

(* seconds in the unit of the limiters' clock *)
SubSeconds(seconds) == seconds * TicksPerSecond

(* time.time(): the start of the tick and the time elapsed since *)
Time == SubSeconds(Seconds(now)) + elapsed

(* the offsets into the tick at which requests are served: a burst and the *)
(* time by which all of it has left the window                             *)
RateInstants == { 0, SubSeconds(USER_RATE_PERIOD) + 1 }

(* defaultdict: a key never seen has the empty history *)
HistoryOf(histories, key) ==
  IF key \in DOMAIN histories THEN histories[key] ELSE << >>

Put(histories, key, history) ==
  [ k \in DOMAIN histories \cup {key} |-> IF k = key THEN history ELSE histories[k] ]

RECURSIVE PruneOlder(_, _)
(* while times and current_time - times[0] > 1.0: times.popleft() *)
PruneOlder(times, current_time) ==
  IF times # << >> /\ current_time - Head(times) > SubSeconds(MIDDLEWARE_RATE_PERIOD)
  THEN PruneOlder(Tail(times), current_time)
  ELSE times

(* main.rate_limit_middleware on one history, up to call_next *)
rate_limit_middleware(times, current_time) ==
  LET kept == PruneOlder(times, current_time)
  IN IF Len(kept) >= MIDDLEWARE_RATE_LIMIT
     THEN [admitted |-> FALSE, times |-> kept]
     ELSE [admitted |-> TRUE, times |-> Append(kept, current_time)]

(* variant: the history is compared with > instead of >= *)
rate_limit_user_late(history, t) ==
  LET kept == Prune(history, t - SubSeconds(USER_RATE_PERIOD))
  IN IF Len(kept) > USER_RATE_LIMIT
     THEN [admitted |-> FALSE, history |-> kept, remaining |-> 0,
           reset |-> Head(kept) + SubSeconds(USER_RATE_PERIOD)]
     ELSE [admitted |-> TRUE, history |-> Append(kept, t),
           remaining |-> USER_RATE_LIMIT - (Len(kept) + 1),
           reset |-> Head(Append(kept, t)) + SubSeconds(USER_RATE_PERIOD)]

(* variant: a rejected request is recorded in the history as well *)
rate_limit_user_recording(history, t) ==
  LET kept == Prune(history, t - SubSeconds(USER_RATE_PERIOD))
  IN IF Len(kept) >= USER_RATE_LIMIT
     THEN [admitted |-> FALSE, history |-> Append(kept, t), remaining |-> 0,
           reset |-> Head(kept) + SubSeconds(USER_RATE_PERIOD)]
     ELSE [admitted |-> TRUE, history |-> Append(kept, t),
           remaining |-> USER_RATE_LIMIT - (Len(kept) + 1),
           reset |-> Head(Append(kept, t)) + SubSeconds(USER_RATE_PERIOD)]

(* dependencies.rate_limit_user on the history of one user at time t *)
rate_limit_user(history, t) ==
  LET kept == Prune(history, t - SubSeconds(USER_RATE_PERIOD))
  IN IF Len(kept) >= USER_RATE_LIMIT
     THEN [admitted |-> FALSE, history |-> kept, remaining |-> 0,
           reset |-> Head(kept) + SubSeconds(USER_RATE_PERIOD)]
     ELSE [admitted |-> TRUE, history |-> Append(kept, t),
           remaining |-> USER_RATE_LIMIT - (Len(kept) + 1),
           reset |-> Head(Append(kept, t)) + SubSeconds(USER_RATE_PERIOD)]

(* the most requests that are past the middleware and not yet answered *)
MaxInFlight == 2

(* a request with Authorization: Bearer token, and the username of its path *)
Request(op, token, username) == [op |-> op, token |-> token, username |-> username]

(* a request reaches rate_limit_middleware with its API key; call_next hands *)
(* an admitted request on to its route                                      *)
Arrive(request) ==
  LET mw == rate_limit_middleware(HistoryOf(request_times, request.token), Time)
  IN /\ request_times' = Put(request_times, request.token, mw.times)
     /\ IF mw.admitted
        THEN /\ BagCardinality(in_flight) < MaxInFlight
             /\ in_flight' = in_flight (+) SetToBag({request})
             /\ UNCHANGED response
        ELSE /\ response' = Resp("rate_limit_middleware", 429, None, "Too many requests")
             /\ UNCHANGED in_flight
     /\ UNCHANGED << now, users, api_keys, configs, goals, entries, next_id,
                     signup_requests, elapsed, user_requests, global_request_times >>

(* a request without an API key passes rate_limit_middleware on the way to *)
(* its route                                                               *)
ArriveUnauthenticated ==
  LET mw == rate_limit_middleware(global_request_times, Time)
  IN /\ mw.admitted
     /\ global_request_times' = mw.times
     /\ UNCHANGED << elapsed, user_requests, request_times, in_flight >>

(* a route behind the middleware: Depends(rate_limit_user) on top of         *)
(* get_current_user, then the handler                                       *)
Serve(request, Handler) ==
  LET uid == get_current_user(request.token)
      rl == rate_limit_user(HistoryOf(user_requests, uid), Time)
  IN /\ BagIn(request, in_flight)
     /\ in_flight' = in_flight (-) SetToBag({request})
     /\ IF uid = None
        THEN /\ Handler
             /\ UNCHANGED user_requests
        ELSE /\ user_requests' = Put(user_requests, uid, rl.history)
             /\ IF rl.admitted
                THEN Handler
                ELSE /\ response' = Resp(request.op, 429, uid, "Rate limit exceeded")
                     /\ UNCHANGED << now, users, api_keys, configs, goals, entries,
                                     next_id, signup_requests >>
     /\ UNCHANGED << elapsed, request_times, global_request_times >>

(* GET /api/me *)
GetCurrentUserInfo(token) ==
  LET uid == get_current_user(token)
  IN /\ response' = IF uid = None
                    THEN Resp("get_current_user_info", 401, None, NoBody)
                    ELSE Resp("get_current_user_info", 200, uid,
                              [username |-> UsernameOf(uid)])
     /\ UNCHANGED << now, users, api_keys, configs, goals, entries, next_id,
                     signup_requests >>

(* time passes within the tick *)
AdvanceTime(instants) ==
  /\ \E t \in instants : t > elapsed /\ elapsed' = t
  /\ UNCHANGED << now, users, api_keys, configs, goals, entries, next_id,
                  signup_requests, response, user_requests, request_times,
                  global_request_times, in_flight >>

NextRateLimit ==
  \/ \E username \in AccountUsernames :
        /\ get_user_by_username(username) = {}
        /\ Signup(username) /\ ArriveUnauthenticated
  \/ \E token \in IssuedTokens : Arrive(Request("get_current_user_info", token, ""))
  \/ \E token \in IssuedTokens :
        Serve(Request("get_current_user_info", token, ""), GetCurrentUserInfo(token))
  \/ AdvanceTime(RateInstants)

(* the rate limiters: two accounts whose requests interleave *)
SpecRateLimit == Init /\ [][NextRateLimit]_vars

(* ---------------- key revocation ---------------- *)
(* the tokens issued to the two accounts in all *)
RevocationTokens == MaxUsers + 2

NextRevocation ==
  \/ \E username \in AccountUsernames :
        next_id.user <= MaxUsers /\ Signup(username) /\ UNCHANGED << limiters, in_flight >>
  \/ \E token \in IssuedTokens, username \in AccountUsernames :
        /\ next_id.token <= RevocationTokens
        /\ GenerateApiKey(token, username) /\ UNCHANGED << limiters, in_flight >>
  \/ \E token \in IssuedTokens, username \in AccountUsernames, key_token \in IssuedTokens :
        InvalidateApiKey(token, username, key_token) /\ UNCHANGED << limiters, in_flight >>
  \/ \E token \in IssuedTokens, username \in AccountUsernames, key_id \in 1..next_id.api_key :
        DeleteApiKeyById(token, username, key_id) /\ UNCHANGED << limiters, in_flight >>
  \/ \E token \in IssuedTokens :
        GetCurrentUserInfo(token) /\ UNCHANGED << limiters, in_flight >>

(* the API keys of two accounts: generate, invalidate, delete by id, use *)
SpecRevocation == Init /\ [][NextRevocation]_vars

(* ---------------- metric configurations ---------------- *)
(* crud.get_user_metrics_config_inactive *)
get_user_metrics_config_inactive(user_id) ==
  { c \in configs : c.user_id = user_id /\ ~ c.is_active }

(* GET /api/metrics/config *)
GetMetricsConfig(token) ==
  LET uid == get_current_user(token)
  IN /\ response' = IF uid = None THEN Resp("get_metrics_config", 401, None, NoBody)
                    ELSE Resp("get_metrics_config", 200, uid,
                              get_user_metrics_config_active(uid))
     /\ UNCHANGED << now, users, api_keys, configs, goals, entries, next_id,
                     signup_requests >>

(* GET /api/metrics/config/inactive *)
GetInactiveMetricsConfig(token) ==
  LET uid == get_current_user(token)
  IN /\ response' = IF uid = None
                    THEN Resp("get_inactive_metrics_config", 401, None, NoBody)
                    ELSE Resp("get_inactive_metrics_config", 200, uid,
                              get_user_metrics_config_inactive(uid))
     /\ UNCHANGED << now, users, api_keys, configs, goals, entries, next_id,
                     signup_requests >>

(* crud.update_user_metrics_config with is_active the one field set *)
update_user_metrics_config(user_id, metric_key, is_active) ==
  { IF c.user_id = user_id /\ c.metric_key = metric_key
    THEN [c EXCEPT !.is_active = is_active] ELSE c : c \in configs }

(* PUT /api/metrics/config/{metric_key} with a body that sets is_active *)
UpdateMetricsConfig(token, metric_key, is_active) ==
  LET uid == get_current_user(token)
  IN IF uid = None
     THEN /\ response' = Resp("update_metrics_config", 401, None, NoBody)
          /\ UNCHANGED << now, users, api_keys, configs, goals, entries, next_id,
                          signup_requests >>
     ELSE IF ~ \E c \in get_user_metrics_config(uid) : c.metric_key = metric_key
     THEN /\ response' = Resp("update_metrics_config", 404, uid, NoBody)
          /\ UNCHANGED << now, users, api_keys, configs, goals, entries, next_id,
                          signup_requests >>
     ELSE /\ configs' = update_user_metrics_config(uid, metric_key, is_active)
          /\ response' = Resp("update_metrics_config", 200, uid,
                              [metric_key |-> metric_key, is_active |-> is_active])
          /\ UNCHANGED << now, users, api_keys, goals, entries, next_id, signup_requests >>

ConfigKeyInputs == {"water_litres", "mood"}

NextConfig ==
  \/ \E username \in Usernames : Signup(username) /\ UNCHANGED << limiters, in_flight >>
  \/ \E token \in IssuedTokens, in \in AccountEntryInputs :
        AddMetricEntry(token, in[1], in[2], now) /\ UNCHANGED << limiters, in_flight >>
  \/ \E token \in IssuedTokens, key \in CustomKeys :
        CreateMetricsConfig(token, key, "min", None) /\ UNCHANGED << limiters, in_flight >>
  \/ \E token \in IssuedTokens, key \in CustomKeys :
        UpdateMetricsConfig(token, key, TRUE) /\ UNCHANGED << limiters, in_flight >>
  \/ \E token \in IssuedTokens, key \in ConfigKeyInputs :
        DeleteMetricsConfig(token, key) /\ UNCHANGED << limiters, in_flight >>
  \/ \E token \in IssuedTokens :
        GetMetricsConfig(token) /\ UNCHANGED << limiters, in_flight >>
  \/ \E token \in IssuedTokens :
        GetInactiveMetricsConfig(token) /\ UNCHANGED << limiters, in_flight >>
  \/ \E token \in IssuedTokens : ReadMetrics(token) /\ UNCHANGED << limiters, in_flight >>

(* the metric configurations of an account: create, deactivate, list, read *)
SpecConfig == Init /\ [][NextConfig]_vars

(* ---------------- the edges of the windows ---------------- *)
(* Friday 2025-01-10 12:00 and Sunday 2025-02-09 00:00, thirty days after *)
(* the start of that Friday                                               *)
WindowInstants == { StartOfDay(375) + 1, StartOfDay(375) + Days(30) }
WindowEntryInputs == { << "water_litres", 2 >>, << "calories_kcal", 2000 >> }

NextWindow ==
  \/ \E username \in Usernames : Signup(username) /\ UNCHANGED << limiters, in_flight >>
  \/ \E token \in IssuedTokens, in \in WindowEntryInputs, ts \in TimestampInputs(now) :
        AddMetricEntry(token, in[1], in[2], ts) /\ UNCHANGED << limiters, in_flight >>
  \/ \E token \in IssuedTokens : ReadMetrics(token) /\ UNCHANGED << limiters, in_flight >>
  \/ AdvanceClock(WindowInstants) /\ UNCHANGED << limiters, in_flight >>

InitWindow == InitAt(Earliest(WindowInstants))

(* read_metrics thirty days after entries were made *)
SpecWindow == InitWindow /\ [][NextWindow]_vars

(* ---------------- interleaved key generation ---------------- *)
(* generate_api_key up to the count of the keys: the request has passed the *)
(* checks and holds current_user                                            *)
GenerateApiKeyCheck(token, username) ==
  LET uid == get_current_user(token)
  IN IF uid = None
     THEN /\ response' = Resp("generate_api_key", 401, None, NoBody)
          /\ UNCHANGED << now, users, api_keys, configs, goals, entries, next_id,
                          signup_requests, limiters, in_flight >>
     ELSE IF username # UsernameOf(uid)
     THEN /\ response' = Resp("generate_api_key", 403, uid, NoBody)
          /\ UNCHANGED << now, users, api_keys, configs, goals, entries, next_id,
                          signup_requests, limiters, in_flight >>
     ELSE IF ApiKeyLimitReached(uid)
     THEN /\ response' = Resp("generate_api_key", 400, uid, "API key limit reached")
          /\ UNCHANGED << now, users, api_keys, configs, goals, entries, next_id,
                          signup_requests, limiters, in_flight >>
     ELSE /\ BagCardinality(in_flight) < MaxInFlight
          /\ in_flight' = in_flight (+) SetToBag({ [op |-> "generate_api_key",
                                                    token |-> token,
                                                    username |-> username,
                                                    user_id |-> uid] })
          /\ UNCHANGED << now, users, api_keys, configs, goals, entries, next_id,
                          signup_requests, response, limiters >>

(* generate_api_key from the new token on: the key is stored for the user *)
(* the request holds                                                      *)
GenerateApiKeyInsert(request) ==
  LET new_token == next_id.token
  IN /\ BagIn(request, in_flight)
     /\ next_id.token <= MaxTokens
     /\ in_flight' = in_flight (-) SetToBag({request})
     /\ api_keys' = api_keys \cup { create_api_key(request.user_id, Sha256(new_token)) }
     /\ next_id' = [next_id EXCEPT !.api_key = @ + 1, !.token = @ + 1]
     /\ response' = Resp("generate_api_key", 200, request.user_id, [token |-> new_token])
     /\ UNCHANGED << now, users, configs, goals, entries, signup_requests, limiters >>

NextKeyRace ==
  \/ \E username \in Usernames : Signup(username) /\ UNCHANGED << limiters, in_flight >>
  \/ \E token \in IssuedTokens, username \in AccountUsernames :
        GenerateApiKeyCheck(token, username)
  \/ \E request \in BagToSet(in_flight) : GenerateApiKeyInsert(request)

(* the requests for a new key of one account, served by several threads *)
SpecKeyRace == Init /\ [][NextKeyRace]_vars

(* ---------------- deleting an entry ---------------- *)
(* variant: the entry is looked up by its id alone *)
delete_metric_entry_any_user(user_id, entry_id) ==
  { e \in entries : e.id # entry_id }

(* crud.delete_metric_entry: the entry with this id AND this user, if any, *)
(* is deleted; the table after the call                                    *)
delete_metric_entry(user_id, entry_id) ==
  { e \in entries : ~(e.id = entry_id /\ e.user_id = user_id) }

(* DELETE /api/metrics/{entry_id} *)
DeleteEntry(token, entry_id) ==
  LET uid == get_current_user(token)
  IN IF uid = None
     THEN /\ response' = Resp("delete_entry", 401, None, NoBody)
          /\ UNCHANGED << now, users, api_keys, configs, goals, entries, next_id,
                          signup_requests >>
     ELSE /\ entries' = delete_metric_entry(uid, entry_id)
          /\ response' = Resp("delete_entry", 200, uid, [status |-> "success"])
          /\ UNCHANGED << now, users, api_keys, configs, goals, next_id,
                          signup_requests >>

(* the entries created in all *)
EntryIds == MaxEntries + 1
DeleteEntryInputs == { << "water_litres", 2 >> }

NextEntries ==
  \/ \E username \in AccountUsernames :
        next_id.user <= MaxUsers /\ Signup(username) /\ UNCHANGED << limiters, in_flight >>
  \/ \E token \in IssuedTokens, in \in DeleteEntryInputs :
        /\ next_id.entry <= EntryIds
        /\ AddMetricEntry(token, in[1], in[2], now) /\ UNCHANGED << limiters, in_flight >>
  \/ \E token \in IssuedTokens, entry_id \in 1..next_id.entry :
        DeleteEntry(token, entry_id) /\ UNCHANGED << limiters, in_flight >>

(* two accounts: entries are posted and deleted by id *)
SpecEntries == Init /\ [][NextEntries]_vars

(* ---------------- after a rejection ---------------- *)
(* the start, just past one period, and exactly one period after that *)
LockoutInstants ==
  { 0, SubSeconds(USER_RATE_PERIOD) + 1, 2 * SubSeconds(USER_RATE_PERIOD) + 1 }

NextLockout ==
  \/ \E username \in Usernames :
        /\ get_user_by_username(username) = {}
        /\ Signup(username) /\ ArriveUnauthenticated
  \/ \E token \in IssuedTokens : Arrive(Request("get_current_user_info", token, ""))
  \/ \E token \in IssuedTokens :
        Serve(Request("get_current_user_info", token, ""), GetCurrentUserInfo(token))
  \/ AdvanceTime(LockoutInstants)

(* the rate limiters: one account over more than two periods *)
SpecLockout == Init /\ [][NextLockout]_vars

(* ======================= properties ======================= *)
(* the last request was a read_metrics that returned its result *)
IsRead == response.op = "read_metrics" /\ response.status = 200
Reader == response.user
Result(name) == response.body[name]
Fetched(name) == Result(name).locals.entries
Today == DateOf(now)
Zero == [null |-> FALSE, num |-> 0, den |-> 1]

ActiveKeys(user_id) ==
  { c.metric_key : c \in { x \in configs : x.user_id = user_id /\ x.is_active } }
ConfigOf(user_id, key) ==
  CHOOSE c \in configs : c.user_id = user_id /\ c.metric_key = key
OwnEntries(user_id, key) ==
  { e \in entries : e.user_id = user_id /\ e.metric_key = key }
OfKey(es, key) == { e \in es : e.metric_key = key }
DatedOn(es, day) == { e \in es : DateOf(e.timestamp) = day }

(* the calendar days a period counts goals over *)
Monday == Today - (Today % 7)
ClaimDays(name) ==
  CASE name = "daily" -> {Today}
    [] name = "weekly" -> Monday .. (Monday + 6)
    [] name = "monthly" -> (Today - 29) .. Today
    [] name = "quarterly" -> (Today - 89) .. Today
    [] name = "yearly" -> (Today - 364) .. Today

(* C1: for every period and active key whose fetched entries sum to 0, the *)
(* average is null exactly when the period holds no entry of that key, and *)
(* 0 when it holds entries of that key.                                    *)
ClaimC1 ==
  IsRead =>
    \A name \in PeriodNames, key \in ActiveKeys(Reader) :
      LET of_key == OfKey(Fetched(name), key)
      IN SumValues(of_key) = 0 =>
           Result(name).average_values[key] = IF of_key = {} THEN Null ELSE Zero

(* C2, as claimed: the quarterly average divides by the days of the        *)
(* quarter elapsed so far (10 days elapsed and a sum of 50 give 5).        *)
ClaimC2 ==
  IsRead =>
    \A key \in ActiveKeys(Reader) :
      LET total == SumValues(OfKey(Fetched("quarterly"), key))
          avg == Result("quarterly").average_values[key]
      IN total # 0 =>
           /\ ~avg.null
           /\ avg.num * ElapsedInQuarter(Today) = total * avg.den

(* C2, amended: the quarterly average always divides by the nominal 90     *)
(* days, whatever day of the quarter it is (a sum of 50 gives 50/90).      *)
TheoremC2 ==
  IsRead =>
    /\ Result("quarterly").locals.days = 90
    /\ \A key \in ActiveKeys(Reader) :
         LET total == SumValues(OfKey(Fetched("quarterly"), key))
             avg == Result("quarterly").average_values[key]
         IN total # 0 => ~avg.null /\ avg.num * 90 = total * avg.den

WitnessC2 ==
  /\ IsRead
  /\ ElapsedInQuarter(Today) = 10
  /\ SumValues(OfKey(Fetched("quarterly"), "water_litres")) = 50
  /\ Result("quarterly").average_values["water_litres"] =
       [null |-> FALSE, num |-> 5, den |-> 9]

(* the goal of the user for the key that was set last *)
LatestGoal(user_id, key) ==
  LET rows == { g \in goals : g.user_id = user_id /\ g.metric_key = key }
  IN CHOOSE g \in rows :
       \A o \in rows : o.created_at < g.created_at \/ (o.created_at = g.created_at /\ o.id <= g.id)

(* C3: the target read_metrics counts goal-reached days against is the     *)
(* target most recently set through set_goal, for every key with a goal.   *)
ClaimC3 ==
  IsRead =>
    \A key \in ActiveKeys(Reader) :
      (\E g \in goals : g.user_id = Reader /\ g.metric_key = key) =>
        Result("daily").locals.goal_map[key] = LatestGoal(Reader, key).target_value

(* C4: the entries fetched for a period are exactly the user's entries     *)
(* with start <= timestamp < end.                                          *)
ClaimC4 ==
  IsRead =>
    \A name \in PeriodNames :
      Fetched(name) =
        { e \in entries :
            /\ e.user_id = Reader
            /\ periods(name, now) <= e.timestamp
            /\ e.timestamp < (IF name = "daily" THEN daily_end(now) ELSE now) }

(* C5: for every period, key with a target and day of the period, the day  *)
(* counts as goal-reached iff its total is >= the target (type min) or <=  *)
(* the target (type max), equality included.                               *)
TheoremC5 ==
  IsRead =>
    \A name \in PeriodNames, key \in ActiveKeys(Reader) :
      LET c == ConfigOf(Reader, key)
          reached(day) ==
            LET daySum == SumValues(DatedOn(OfKey(Fetched(name), key), day))
            IN \/ c.type = "max" /\ daySum <= c.goal
               \/ c.type = "min" /\ daySum >= c.goal
      IN c.goal # None =>
           Result(name).goalReached[key] =
             Cardinality({ day \in ClaimDays(name) : reached(day) })

WitnessC5 ==
  /\ IsRead
  /\ "calories_kcal" \in ActiveKeys(Reader)
  /\ ConfigOf(Reader, "calories_kcal").type = "max"
  /\ SumValues(DatedOn(OfKey(Fetched("daily"), "calories_kcal"), Today))
       = ConfigOf(Reader, "calories_kcal").goal
  /\ Result("daily").goalReached["calories_kcal"] = 1

(* C6: the daily average of a key is the sum of the user's entries of that *)
(* key dated today (null standing for no data).                            *)
ClaimC6 ==
  IsRead =>
    \A key \in ActiveKeys(Reader) :
      LET total == SumValues(DatedOn(OwnEntries(Reader, key), Today))
          avg == Result("daily").average_values[key]
      IN IF avg.null THEN total = 0 ELSE avg.den = 1 /\ avg.num = total

(* C7, as claimed: daily_totals has 7 elements Monday..Sunday, element i   *)
(* is the sum of the key's entries dated that day, days after today are 0. *)
ClaimC7 ==
  IsRead =>
    \A key \in ActiveKeys(Reader) :
      LET totals == Result("weekly").daily_totals[key]
      IN /\ DOMAIN totals = 1..7
         /\ \A i \in 1..7 :
              totals[i] =
                IF Monday + (i - 1) > Today THEN 0
                ELSE SumValues(DatedOn(OwnEntries(Reader, key), Monday + (i - 1)))

(* C7, amended: daily_totals has 7 elements Monday..Sunday for every       *)
(* active key, element i is the sum of the key's entries dated that day    *)
(* and timestamped no later than now; so entries later today and every     *)
(* day after today count 0.                                                *)
TheoremC7 ==
  IsRead =>
    /\ DOMAIN Result("weekly").daily_totals = ActiveKeys(Reader)
    /\ \A key \in ActiveKeys(Reader) :
         LET totals == Result("weekly").daily_totals[key]
         IN /\ DOMAIN totals = 1..7
            /\ \A i \in 1..7 :
                 /\ totals[i] =
                      SumValues({ e \in DatedOn(OwnEntries(Reader, key), Monday + (i - 1)) :
                                    e.timestamp <= now })
                 /\ Monday + (i - 1) > Today => totals[i] = 0

WitnessC7 ==
  /\ IsRead
  /\ Weekday(Today) = 4
  /\ Cardinality(OwnEntries(Reader, "water_litres")) = 2
  /\ Result("weekly").daily_totals["water_litres"] = << 0, 0, 0, 0, 4, 0, 0 >>

(* C8: goal-reached days are counted over the 1, 7, 30, 90, 365 days of    *)
(* the period (today alone, Monday..Sunday, the days ending with today),   *)
(* not over the elapsed days the average divides by.                       *)
TheoremC8 ==
  IsRead =>
    \A name \in PeriodNames :
      LET dates == Result(name).locals.dates
      IN /\ { dates[i] : i \in DOMAIN dates } = ClaimDays(name)
         /\ DOMAIN dates = 1..Cardinality(ClaimDays(name))
         /\ \A i \in DOMAIN dates : i > 1 => dates[i] = dates[i - 1] + 1
         /\ ( /\ "calories_kcal" \in ActiveKeys(Reader)
              /\ OfKey(Fetched(name), "calories_kcal") = {}
              /\ ConfigOf(Reader, "calories_kcal").type = "max"
              /\ ConfigOf(Reader, "calories_kcal").goal >= 0 )
            => Result(name).goalReached["calories_kcal"] = Cardinality(ClaimDays(name))

WitnessC8 ==
  /\ IsRead
  /\ Result("monthly").locals.days = 10
  /\ DOMAIN Result("monthly").locals.dates = 1..30
  /\ Result("monthly").goalReached["calories_kcal"] = 30
  /\ Result("yearly").goalReached["calories_kcal"] = 365

(* C9: the averaging divisor d of each period satisfies 1 <= d <= nominal  *)
(* length, d = 1 daily, d = weekday index + 1 weekly, d = min(30, day of   *)
(* month) monthly; the reported average is the period sum over d.          *)
TheoremC9 ==
  IsRead =>
    /\ \A name \in PeriodNames :
         LET d == Result(name).locals.days
         IN /\ 1 <= d
            /\ d <= Cardinality(ClaimDays(name))
            /\ \A key \in ActiveKeys(Reader) :
                 LET total == SumValues(OfKey(Fetched(name), key))
                     avg == Result(name).average_values[key]
                 IN total # 0 => ~avg.null /\ avg.num * d = total * avg.den
    /\ Result("daily").locals.days = 1
    /\ Result("weekly").locals.days = (Today % 7) + 1
    /\ Result("monthly").locals.days =
         IF DayOfMonth(Today) < 30 THEN DayOfMonth(Today) ELSE 30

WitnessC9 ==
  /\ IsRead
  /\ DayOfMonth(Today) = 31
  /\ Result("monthly").locals.days = 30
  /\ Result("weekly").locals.days = 1
  /\ \E e \in Fetched("monthly") : e.value # 0

(* C10: with no entries at all read_metrics succeeds and reports, in all   *)
(* five periods and for every active key, a null average, and 0 goal-      *)
(* reached days for every key without a target.                            *)
TheoremC10 ==
  (response.op = "read_metrics" /\ Reader # None
     /\ { e \in entries : e.user_id = Reader } = {}) =>
    /\ response.status = 200
    /\ DOMAIN response.body = PeriodNames
    /\ \A name \in PeriodNames :
         /\ DOMAIN Result(name).average_values = ActiveKeys(Reader)
         /\ DOMAIN Result(name).goalReached = ActiveKeys(Reader)
         /\ \A key \in ActiveKeys(Reader) :
              /\ Result(name).average_values[key] = Null
              /\ ConfigOf(Reader, key).goal = None => Result(name).goalReached[key] = 0

WitnessC10 ==
  /\ IsRead
  /\ { e \in entries : e.user_id = Reader } = {}
  /\ "mood" \in ActiveKeys(Reader)
  /\ ConfigOf(Reader, "mood").goal = None
  /\ \A name \in PeriodNames :
       Result(name).average_values["mood"] = Null /\ Result(name).goalReached["mood"] = 0

(* C11: in every period the goal-reached map has exactly the user's active *)
(* keys, and a key whose target is missing counts exactly 0 goal-reached   *)
(* days, whatever entries it has.                                          *)
TheoremC11 ==
  IsRead =>
    \A name \in PeriodNames :
      /\ DOMAIN Result(name).goalReached = ActiveKeys(Reader)
      /\ \A key \in ActiveKeys(Reader) :
           /\ Result(name).goalReached[key] \in Nat
           /\ Result(name).locals.goal_map[key] = None =>
                Result(name).goalReached[key] = 0

WitnessC11 ==
  /\ IsRead
  /\ "mood" \in ActiveKeys(Reader)
  /\ Result("daily").locals.goal_map["mood"] = None
  /\ OfKey(Fetched("daily"), "mood") # {}
  /\ Result("daily").goalReached["mood"] = 0
  /\ Result("daily").goalReached["calories_kcal"] = 1

(* the last request was a set_goal that stored its goal *)
IsSetGoal == response.op = "set_goal" /\ response.status = 200
GoalsOf(user_id, key) == { g \in goals : g.user_id = user_id /\ g.metric_key = key }

TheoremC13 ==
  /\ [](\A u \in users, key \in DefaultKeys \cup CustomKeys :
          Cardinality(GoalsOf(u.id, key)) <= 1)
  /\ [](IsSetGoal => GoalsOf(response.user, response.body.metric_key) = {response.body})
  /\ [][IsSetGoal' =>
          \A old \in GoalsOf(response'.user, response'.body.metric_key) :
            response'.body.id = old.id]_vars

WitnessC13 ==
  /\ IsSetGoal
  /\ response.body.id = 1
  /\ response.body.target_value = 5
  /\ response.body.created_at > Earliest(Instants)
  /\ \E g \in goals : g.id = 2 /\ g.created_at = Earliest(Instants)

(* C14: read_metrics writes nothing: a step that answers a read_metrics    *)
(* leaves users, keys, entries, goals and metric configurations as they    *)
(* were, and the answer is the aggregation of the state it leaves behind,  *)
(* so that a second read at the same now answers the same.                 *)
TheoremC14 ==
  /\ [][response'.op = "read_metrics" =>
          UNCHANGED << users, api_keys, entries, goals, configs, next_id >>]_vars
  /\ [](IsRead =>
          response.body = [name \in PeriodNames |-> Aggregate(Reader, name, now)])

WitnessC14 ==
  /\ IsRead
  /\ Cardinality({ e \in entries : e.user_id = Reader }) = MaxEntries
  /\ Fetched("daily") # {}
  /\ ~Result("daily").average_values["water_litres"].null

(* what read_metrics would answer to the user now *)
AggregateAll(user_id) == [name \in PeriodNames |-> Aggregate(user_id, name, now)]

(* C15: what read_metrics answers to a user does not depend on the other   *)
(* users: a write made by anyone else (creating or deleting entries,       *)
(* metric configurations, accounts) leaves the user's aggregation as it    *)
(* was, only the user's own entries are fetched, and a user without        *)
(* entries gets a null average whatever the others have logged.            *)
TheoremC15 ==
  /\ [][<< users, api_keys, configs, goals, entries >>' # << users, api_keys, configs, goals, entries >> =>
          \A u \in users \cap users' :
            response'.user # u.id => AggregateAll(u.id)' = AggregateAll(u.id)]_vars
  /\ [](IsRead =>
          \A name \in PeriodNames :
            /\ Fetched(name) \subseteq { e \in entries : e.user_id = Reader }
            /\ { e \in entries : e.user_id = Reader } = {} =>
                 \A key \in ActiveKeys(Reader) :
                   Result(name).average_values[key] = Null)

WitnessC15 ==
  /\ IsRead
  /\ \E e \in entries : e.user_id # Reader /\ e.metric_key = "water_litres"
  /\ { e \in entries : e.user_id = Reader } = {}
  /\ "water_litres" \in ActiveKeys(Reader)
  /\ Result("daily").average_values["water_litres"] = Null

(* the signups admitted within the last SIGNUP_RATE_PERIOD seconds *)
RecentSignups ==
  { i \in DOMAIN signup_requests : signup_requests[i] > Seconds(now) - SIGNUP_RATE_PERIOD }

(* the last request was a signup that created its user *)
IsSignup == response.op = "signup" /\ response.status = 200

(* C16, as claimed: a signup for a username nobody holds succeeds with 200. *)
ClaimC16 ==
  [][\A username \in SignupUsernames :
       (get_user_by_username(username) = {} /\ Signup(username)) =>
         response'.status = 200]_vars

(* C16, amended: a signup for a username nobody holds succeeds with 200    *)
(* when fewer than SIGNUP_RATE_LIMIT signups were admitted in the last     *)
(* SIGNUP_RATE_PERIOD seconds: it returns the username and a fresh token   *)
(* and creates the user with exactly one API key, which authenticates the  *)
(* token; otherwise it is rejected with 429 and creates nothing.           *)
TheoremC16 ==
  [][\A username \in SignupUsernames :
       (get_user_by_username(username) = {} /\ Signup(username)) =>
         IF Cardinality(RecentSignups) < SIGNUP_RATE_LIMIT
         THEN /\ response'.status = 200
              /\ response'.body.username = username
              /\ response'.body.token \notin IssuedTokens
              /\ \E u \in users' \ users :
                   /\ users' = users \cup {u}
                   /\ u.username = username
                   /\ Cardinality({ k \in api_keys' : k.user_id = u.id }) = 1
                   /\ get_current_user(response.body.token)' = u.id
         ELSE /\ response'.status = 429
              /\ UNCHANGED << users, api_keys, goals, configs, entries >>]_vars

WitnessC16 ==
  /\ IsSignup
  /\ get_current_user(response.body.token) = response.user
  /\ Cardinality(users) = Cardinality(SignupUsernames)
  /\ Len(signup_requests) = 1

(* C17: a signup for a username somebody holds is rejected with 400 and    *)
(* 'Username already exists', and changes nothing: no user, key, goal or   *)
(* metric configuration is created and the signup quota is not touched.    *)
TheoremC17 ==
  [][\A username \in SignupUsernames :
       (get_user_by_username(username) # {} /\ Signup(username)) =>
         /\ response' = Resp("signup", 400, None, "Username already exists")
         /\ UNCHANGED << users, api_keys, goals, configs, entries, next_id,
                         signup_requests >>]_vars

WitnessC17 ==
  /\ response.op = "signup"
  /\ response.status = 400
  /\ response.body = "Username already exists"
  /\ Cardinality(RecentSignups) = SIGNUP_RATE_LIMIT
  /\ Cardinality(users) = SIGNUP_RATE_LIMIT

(* C18: a user never holds more than 5 API keys, and generate_api_key for  *)
(* a user who holds 5 answers 400 and creates no key.                      *)
TheoremC18 ==
  /\ [](\A u \in users : Cardinality({ k \in api_keys : k.user_id = u.id }) <= 5)
  /\ [][\A token \in IssuedTokens, username \in AccountUsernames :
          ( /\ get_current_user(token) # None
            /\ username = UsernameOf(get_current_user(token))
            /\ Cardinality({ k \in api_keys : k.user_id = get_current_user(token) }) = 5
            /\ GenerateApiKey(token, username) )
          => /\ response'.status = 400
             /\ api_keys' = api_keys
             /\ next_id' = next_id]_vars

WitnessC18 ==
  /\ response.op = "generate_api_key"
  /\ response.status = 400
  /\ Cardinality({ k \in api_keys : k.user_id = response.user }) = 5
  /\ \E token \in IssuedTokens : get_current_user(token) = None

(* the last request was a delete_user_account that deleted its user *)
IsDeleteUser == response.op = "delete_user_account" /\ response.status = 204

(* C19: when delete_user_account succeeds, no API key, entry, goal, metric *)
(* configuration or user record of that user remains; every token that     *)
(* authenticated as the user stops authenticating, a token that does not   *)
(* authenticate never does again, and a request bearing such a token is    *)
(* answered 401.                                                           *)
TheoremC19 ==
  /\ [](IsDeleteUser =>
          /\ { k \in api_keys : k.user_id = response.user } = {}
          /\ { e \in entries : e.user_id = response.user } = {}
          /\ { g \in goals : g.user_id = response.user } = {}
          /\ { c \in configs : c.user_id = response.user } = {}
          /\ { u \in users : u.id = response.user } = {})
  /\ [][IsDeleteUser' =>
          \A token \in IssuedTokens :
            get_current_user(token) = response'.user => get_current_user(token)' = None]_vars
  /\ [][\A token \in IssuedTokens :
          get_current_user(token) = None =>
            /\ get_current_user(token)' = None
            /\ ( \/ ReadGoals(token)
                 \/ \E in \in GoalEntryInputs : AddMetricEntry(token, in[1], in[2], now)
                 \/ \E username \in AccountUsernames : GenerateApiKey(token, username)
                 \/ \E username \in AccountUsernames : DeleteUserAccount(token, username) )
               => response'.status = 401]_vars

WitnessC19 ==
  /\ response.op = "read_goals"
  /\ response.status = 401
  /\ Cardinality({ token \in IssuedTokens : get_current_user(token) = None }) = 3
  /\ \E u \in users : u.id = MaxUsers
  /\ entries # {}

(* C20: add_metric_entry for a key that is not an active metric of the     *)
(* user (unknown or deactivated) answers 400 with the user's active keys   *)
(* as hint and stores nothing; every entry that is stored carries a key    *)
(* that is an active metric of its owner at that moment.                   *)
TheoremC20 ==
  /\ [][\A token \in IssuedTokens, in \in AccountEntryInputs :
          ( /\ get_current_user(token) # None
            /\ in[1] \notin ActiveKeys(get_current_user(token))
            /\ AddMetricEntry(token, in[1], in[2], now) )
          => /\ response'.status = 400
             /\ response'.body.hint = ActiveKeys(get_current_user(token))
             /\ entries' = entries]_vars
  /\ [][\A e \in entries' \ entries : e.metric_key \in ActiveKeys(e.user_id)]_vars

WitnessC20 ==
  /\ response.op = "add_metric_entry"
  /\ response.status = 400
  /\ response.body.hint = {"calories_kcal"}
  /\ \E c \in configs :
       c.user_id = response.user /\ c.metric_key = "water_litres" /\ ~c.is_active
  /\ \E e \in entries : e.user_id = response.user /\ e.metric_key = "water_litres"

(* ---------------- rate limiting ---------------- *)
(* the timestamps of a history that lie in the window ending at t *)
InWindow(history, t) ==
  SelectSeq(history, LAMBDA ts : ts > t - SubSeconds(USER_RATE_PERIOD))

(* the step answers a request that has passed the middleware *)
IsServed == BagCardinality(in_flight') < BagCardinality(in_flight)

(* C21: no user's history ever holds more than USER_RATE_LIMIT timestamps;  *)
(* a request of a user that reaches rate_limit_user, whichever requests of  *)
(* that user or of others are under way, is admitted and recorded when the  *)
(* window ending now holds fewer than USER_RATE_LIMIT of the user's         *)
(* timestamps, is rejected with 429 and not recorded when it holds that     *)
(* many, and leaves the history of every other user as it was               *)
TheoremC21 ==
  /\ [](\A u \in DOMAIN user_requests : Len(user_requests[u]) <= USER_RATE_LIMIT)
  /\ [][ (IsServed /\ response'.user # None) =>
           LET u == response'.user
               window == InWindow(HistoryOf(user_requests, u), Time)
           IN /\ Len(window) >= USER_RATE_LIMIT =>
                   /\ response'.status = 429
                   /\ user_requests'[u] = window
              /\ Len(window) < USER_RATE_LIMIT =>
                   /\ response'.status = 200
                   /\ user_requests'[u] = Append(window, Time)
              /\ \A v \in DOMAIN user_requests' \ {u} :
                   /\ v \in DOMAIN user_requests
                   /\ user_requests'[v] = user_requests[v] ]_vars

(* a user is rejected with 429 by rate_limit_user with a full history, while *)
(* another user has requests recorded and a request is under way            *)
WitnessC21 ==
  /\ response.op = "get_current_user_info"
  /\ response.status = 429
  /\ Len(user_requests[response.user]) = USER_RATE_LIMIT
  /\ \E v \in DOMAIN user_requests \ {response.user} :
       Len(user_requests[v]) \in 1 .. (USER_RATE_LIMIT - 1)
  /\ in_flight # EmptyBag

(* ---------------- key revocation ---------------- *)
(* the issued tokens that authenticate as the user *)
LiveTokens(user_id) == { t \in IssuedTokens : get_current_user(t) = user_id }

(* C22: a token whose key has been removed authenticates no more, now or    *)
(* later, and a request bearing it gets 401; invalidate_api_key with a      *)
(* token of the caller and delete_api_key_by_id with an id of a key of the  *)
(* caller make that token fail; a removal takes at most one key, a key of   *)
(* the caller, and every other token authenticates as before                *)
TheoremC22 ==
  [][ /\ \A t \in IssuedTokens :
           /\ get_current_user(t) = None => get_current_user(t)' = None
           /\ GetCurrentUserInfo(t) =>
                response'.status = (IF get_current_user(t) = None THEN 401 ELSE 200)
      /\ (response'.op \in {"invalidate_api_key", "delete_api_key_by_id"}
            /\ response'.status = 204) =>
           LET uid == response'.user
               removed == api_keys \ api_keys'
           IN /\ Cardinality(removed) <= 1
              /\ \A k \in removed : k.user_id = uid
              /\ api_keys' \subseteq api_keys
              /\ \A t \in IssuedTokens :
                   Sha256(t) \notin { k.key_hash : k \in removed } =>
                     get_current_user(t)' = get_current_user(t)
              /\ \A token \in LiveTokens(uid), key_token \in LiveTokens(uid) :
                   InvalidateApiKey(token, UsernameOf(uid), key_token) =>
                     get_current_user(key_token)' = None
              /\ \A token \in LiveTokens(uid), k \in get_user_api_keys(uid) :
                   DeleteApiKeyById(token, UsernameOf(uid), k.id) =>
                     \A t \in IssuedTokens :
                       k.key_hash = Sha256(t) => get_current_user(t)' = None ]_vars

(* a key of a user has just been removed: its token fails, another token of *)
(* the user and a token of another user still authenticate                  *)
WitnessC22 ==
  /\ response.op \in {"invalidate_api_key", "delete_api_key_by_id"}
  /\ response.status = 204
  /\ LiveTokens(None) # {}
  /\ LiveTokens(response.user) # {}
  /\ \E u \in users : u.id # response.user /\ LiveTokens(u.id) # {}

(* ---------------- metric configurations ---------------- *)
(* the configurations without their activity flag *)
ConfigRecords == { [c EXCEPT !.is_active = TRUE] : c \in configs }
InactiveKeys(user_id) == { c.metric_key : c \in get_user_metrics_config_inactive(user_id) }

(* C23: delete_metrics_config removes no configuration record and no entry: *)
(* it answers 404 and changes nothing when the user has no configuration    *)
(* for the key, and otherwise only clears is_active of that configuration,  *)
(* whose key is then in the inactive and not in the active list; the lists  *)
(* returned are those, read_metrics reports the active keys only, and       *)
(* create_metrics_config for a key the user has, deactivated or not, is     *)
(* rejected with 400 and changes nothing                                    *)
TheoremC23 ==
  /\ [][ \A token \in IssuedTokens, key \in ConfigKeyInputs :
           LET uid == get_current_user(token)
               held == \E c \in get_user_metrics_config(uid) : c.metric_key = key
           IN /\ DeleteMetricsConfig(token, key) =>
                   /\ entries' = entries
                   /\ ConfigRecords' = ConfigRecords
                   /\ Cardinality(configs') = Cardinality(configs)
                   /\ \A c \in configs : c.user_id # uid \/ c.metric_key # key => c \in configs'
                   /\ response'.status = (IF held THEN 200 ELSE 404)
                   /\ ~ held => configs' = configs
                   /\ held => /\ key \notin ActiveKeys(uid)'
                              /\ key \in InactiveKeys(uid)'
              /\ (held /\ CreateMetricsConfig(token, key, "min", None)) =>
                   /\ response'.status = 400
                   /\ response'.body = "Metric already exists for user"
                   /\ configs' = configs ]_vars
  /\ [](/\ response.op = "get_metrics_config" =>
             { c.metric_key : c \in response.body } = ActiveKeys(response.user)
        /\ response.op = "get_inactive_metrics_config" =>
             { c.metric_key : c \in response.body } = InactiveKeys(response.user)
        /\ IsRead => \A name \in PeriodNames :
             /\ DOMAIN Result(name).average_values = ActiveKeys(Reader)
             /\ DOMAIN Result(name).goalReached = ActiveKeys(Reader))

(* a metric with stored entries has been deactivated and creating it again *)
(* has just been refused                                                   *)
WitnessC23 ==
  /\ response.op = "create_metrics_config"
  /\ response.status = 400
  /\ \E c \in get_user_metrics_config_inactive(response.user) :
       /\ c.metric_key \in CustomKeys
       /\ \E e \in entries : e.user_id = response.user /\ e.metric_key = c.metric_key

(* ---------------- signup rate ---------------- *)
(* the admitted signups recorded in the window that ends now *)
SignupWindow ==
  SelectSeq(signup_requests, LAMBDA ts : ts > Seconds(now) - SIGNUP_RATE_PERIOD)

(* C24: the signup history never holds more than SIGNUP_RATE_LIMIT          *)
(* timestamps and no more than that many accounts are created at one        *)
(* instant; a signup is admitted and recorded when the window ending now    *)
(* holds fewer than SIGNUP_RATE_LIMIT admitted signups, a signup for a free *)
(* username that meets a full window is rejected with 429 and creates no    *)
(* user, and a signup rejected with 400 for a held username is not recorded *)
TheoremC24 ==
  /\ [](/\ Len(signup_requests) <= SIGNUP_RATE_LIMIT
        /\ now = Earliest(Instants) => Cardinality(users) <= SIGNUP_RATE_LIMIT)
  /\ [][ (\E username \in SignupUsernames : Signup(username)) =>
           /\ response'.status \in {200, 400, 429}
           /\ response'.status = 200 =>
                /\ Len(SignupWindow) < SIGNUP_RATE_LIMIT
                /\ signup_requests' = Append(SignupWindow, Seconds(now))
                /\ Cardinality(users') = Cardinality(users) + 1
           /\ response'.status = 429 =>
                /\ Len(SignupWindow) = SIGNUP_RATE_LIMIT
                /\ signup_requests' = SignupWindow
                /\ UNCHANGED << users, api_keys, next_id >>
           /\ response'.status = 400 =>
                /\ signup_requests' = signup_requests
                /\ UNCHANGED << users, api_keys, next_id >> ]_vars

(* the sixth signup for a free username within the window has been rejected *)
WitnessC24 ==
  /\ response.op = "signup"
  /\ response.status = 429
  /\ Cardinality(users) = SIGNUP_RATE_LIMIT
  /\ Len(signup_requests) = SIGNUP_RATE_LIMIT
  /\ \A i \in DOMAIN signup_requests : signup_requests[i] = Seconds(now)

(* ---------------- nested periods ---------------- *)
(* the sum a period reports for a key, before the division *)
SumOf(name, key) == PeriodSum(Fetched(name), key)

(* the entries the daily period fetched that are dated after now *)
DatedAhead == { e \in Fetched("daily") : e.timestamp > now }

(* C25, as claimed: the entries of each period are among those of the next  *)
(* longer period, and so are the sums of every key.                         *)
ClaimC25 ==
  IsRead =>
    /\ Fetched("daily") \subseteq Fetched("weekly")
    /\ Fetched("weekly") \subseteq Fetched("monthly")
    /\ Fetched("monthly") \subseteq Fetched("quarterly")
    /\ Fetched("quarterly") \subseteq Fetched("yearly")
    /\ \A key \in ActiveKeys(Reader) :
         /\ SumOf("daily", key) <= SumOf("weekly", key)
         /\ SumOf("weekly", key) <= SumOf("monthly", key)
         /\ SumOf("monthly", key) <= SumOf("quarterly", key)
         /\ SumOf("quarterly", key) <= SumOf("yearly", key)

(* C25, amended: the entries of the weekly period are among those of the    *)
(* monthly, those of the monthly among the quarterly, those of the          *)
(* quarterly among the yearly, and so are the sums of every key for values  *)
(* that are not negative; of the daily period, which runs to the end of     *)
(* today, the entries dated now or earlier are among those of the weekly    *)
(* period, and the entries dated after now are in no other period.          *)
TheoremC25 ==
  IsRead =>
    /\ Fetched("daily") \ DatedAhead \subseteq Fetched("weekly")
    /\ \A name \in PeriodNames \ {"daily"} : DatedAhead \cap Fetched(name) = {}
    /\ Fetched("weekly") \subseteq Fetched("monthly")
    /\ Fetched("monthly") \subseteq Fetched("quarterly")
    /\ Fetched("quarterly") \subseteq Fetched("yearly")
    /\ \A key \in ActiveKeys(Reader) :
         /\ PeriodSum(Fetched("daily") \ DatedAhead, key) <= SumOf("weekly", key)
         /\ SumOf("weekly", key) <= SumOf("monthly", key)
         /\ SumOf("monthly", key) <= SumOf("quarterly", key)
         /\ SumOf("quarterly", key) <= SumOf("yearly", key)

(* a read on a day with an entry dated now and an entry dated later today *)
WitnessC25 ==
  /\ IsRead
  /\ \E e \in DatedAhead : DateOf(e.timestamp) = Today
  /\ Fetched("weekly") # {}
  /\ \E key \in ActiveKeys(Reader) :
       0 < SumOf("weekly", key) /\ SumOf("weekly", key) < SumOf("daily", key)

(* ---------------- days and windows ---------------- *)
(* the calendar days the handler enumerates for a period *)
EnumeratedDays(name) == { Result(name).locals.dates[i] : i \in DOMAIN Result(name).locals.dates }

(* the fetched entries that fall on none of the enumerated days *)
Stray(name) == { e \in Fetched(name) : DateOf(e.timestamp) \notin EnumeratedDays(name) }

RECURSIVE SumOverEach(_, _, _)
SumOverEach(es, key, days) ==
  IF days = {} THEN 0
  ELSE LET d == CHOOSE x \in days : TRUE
       IN PeriodSum(DatedOn(es, d), key) + SumOverEach(es, key, days \ {d})

(* the total over a set of days of the sums of a key on each day: a day   *)
(* without entries adds nothing                                           *)
SumOverDays(es, key, days) ==
  SumOverEach(es, key, { d \in days : DatedOn(es, d) # {} })

RECURSIVE SumSeq(_)
SumSeq(q) == IF q = << >> THEN 0 ELSE Head(q) + SumSeq(Tail(q))

(* C26, as claimed: every entry summed for a period falls on one of the     *)
(* days enumerated for it, so the sum of a key is the total of its sums on  *)
(* those days and, for weekly, the total of daily_totals.                   *)
ClaimC26 ==
  IsRead =>
    \A name \in PeriodNames :
      /\ Stray(name) = {}
      /\ \A key \in ActiveKeys(Reader) :
           /\ SumOf(name, key) = SumOverDays(Fetched(name), key, EnumeratedDays(name))
           /\ name = "weekly" => SumOf(name, key) = SumSeq(Result(name).daily_totals[key])

(* C26, amended: every entry summed for the weekly period falls on one of   *)
(* its seven days, and the weekly sum of a key is the total of its          *)
(* daily_totals; an entry summed for the daily period falls on today unless *)
(* it is dated the start of tomorrow, and an entry summed for the monthly,  *)
(* quarterly or yearly period falls on an enumerated day unless it is dated *)
(* on the day the window starts, one day before the first enumerated day;   *)
(* the sum of a key is the total of its sums on the enumerated days plus    *)
(* the entries so excepted.                                                 *)
TheoremC26 ==
  IsRead =>
    \A name \in PeriodNames :
      /\ name = "weekly" => Stray(name) = {}
      /\ name = "daily" => \A e \in Stray(name) : e.timestamp = StartOfDay(Today + 1)
      /\ name \in {"monthly", "quarterly", "yearly"} =>
           \A e \in Stray(name) : DateOf(e.timestamp) = Today - period_days(name)
      /\ \A key \in ActiveKeys(Reader) :
           /\ SumOf(name, key) =
                SumOverDays(Fetched(name), key, EnumeratedDays(name))
                  + PeriodSum(Stray(name), key)
           /\ name = "weekly" => SumOf(name, key) = SumSeq(Result(name).daily_totals[key])

(* a read thirty days after an entry: the monthly period sums it and does *)
(* not enumerate its day, while the weekly period has an entry of its own *)
WitnessC26 ==
  /\ IsRead
  /\ Stray("monthly") # {}
  /\ Stray("daily") = {}
  /\ \E key \in DefaultKeys :
       SumOf("weekly", key) > 0 /\ SumOf("monthly", key) > SumOf("weekly", key)

(* ---------------- the average and the largest day ---------------- *)
(* the calendar days on which entries fall *)
DaysOf(es) == { DateOf(e.timestamp) : e \in es }

(* the largest total of a key on one day among the entries *)
LargestDayTotal(es, key) ==
  LET totals == { PeriodSum(DatedOn(es, d), key) : d \in DaysOf(OfKey(es, key)) }
  IN IF totals = {} THEN 0 ELSE CHOOSE m \in totals : \A o \in totals : o <= m

(* the average reported is at most the bound *)
AtMost(avg, bound) == avg.null \/ avg.num <= bound * avg.den

(* the entries of the key all fall on the last `days` calendar days *)
WithinDivisor(name, key) ==
  \A e \in OfKey(Fetched(name), key) :
    /\ DateOf(e.timestamp) <= Today
    /\ DateOf(e.timestamp) > Today - Result(name).locals.days

ClaimC28 ==
  \A u \in users : Cardinality(get_user_api_keys(u.id)) <= API_KEY_LIMIT

(* ---------------- deleting an entry ---------------- *)
OwnedBy(user_id, entry_id) ==
  { e \in entries : e.id = entry_id /\ e.user_id = user_id }

(* C29: delete_entry removes an entry only when it belongs to the         *)
(* authenticated user: a request naming an entry of another user, or an   *)
(* id no entry has, leaves every stored entry as it was, and the response *)
(* still reports status success; a request naming an entry of the caller  *)
(* removes that entry and no other.                                       *)
TheoremC29 ==
  [][ \A token \in IssuedTokens, entry_id \in 1..next_id.entry :
        (DeleteEntry(token, entry_id) /\ get_current_user(token) # None)
          => /\ response'.status = 200
             /\ response'.body = [status |-> "success"]
             /\ entries' = entries \ OwnedBy(get_current_user(token), entry_id)
             /\ (OwnedBy(get_current_user(token), entry_id) = {} => entries' = entries) ]_vars

(* a user who owns no entry has just been told "success" while another    *)
(* user's entries, all that were ever posted, are still stored            *)
WitnessC29 ==
  /\ response.op = "delete_entry"
  /\ response.status = 200
  /\ entries # {}
  /\ Cardinality(entries) = next_id.entry - 1
  /\ \A e \in entries : e.user_id # response.user

(* ---------------- after a rejection ---------------- *)
Count(seq, x) == Cardinality({ i \in 1..Len(seq) : seq[i] = x })

(* a request with this token leaves in_flight in this step: its route's *)
(* dependencies have run                                                *)
Served(token) ==
  /\ BagIn(Request("get_current_user_info", token, ""), in_flight)
  /\ BagCardinality(in_flight') < BagCardinality(in_flight)
  /\ get_current_user(token) # None

RejectedByUserLimit ==
  response'.op = "get_current_user_info" /\ response'.status = 429

(* C30: a rate-limited user is not locked out. A request that             *)
(* rate_limit_user rejects adds nothing to the user's history, and a      *)
(* request that reaches rate_limit_user when the history is empty or its  *)
(* oldest timestamp is USER_RATE_PERIOD old or older is admitted and      *)
(* recorded, whatever was rejected before.                                *)
TheoremC30 ==
  [][ \A token \in IssuedTokens :
        Served(token) =>
          LET uid == get_current_user(token)
              before == HistoryOf(user_requests, uid)
              after == HistoryOf(user_requests', uid)
          IN /\ RejectedByUserLimit
                  => /\ Count(after, Time) = Count(before, Time)
                     /\ Len(after) <= Len(before)
             /\ (before = << >> \/ Time - Head(before) >= SubSeconds(USER_RATE_PERIOD))
                  => /\ response'.status = 200
                     /\ Count(after, Time) = Count(before, Time) + 1 ]_vars

(* the user's last request was rejected with a full history, the period   *)
(* has since elapsed for the oldest timestamp, and the next request, now  *)
(* past the middleware, can be answered with 200                          *)
WitnessC30 ==
  \E token \in IssuedTokens :
    LET uid == get_current_user(token)
        history == HistoryOf(user_requests, uid)
    IN /\ uid # None
       /\ response.op = "get_current_user_info" /\ response.status = 429
       /\ response.user = uid
       /\ Len(history) = USER_RATE_LIMIT
       /\ Time - Head(history) >= SubSeconds(USER_RATE_PERIOD)
       /\ ENABLED ( /\ Serve(Request("get_current_user_info", token, ""),
                             GetCurrentUserInfo(token))
                    /\ response'.status = 200 )
====
